---- MODULE Spec2Model ----
(***************************************************************************)
(* Camera motion and anchor binding of bevy_optix (src/src/camera.rs,      *)
(* src/src/anchor.rs).                                                     *)
(*                                                                         *)
(* Translations are Vec3 values <<x, y, z>> on a fixed-point integer grid; *)
(* f32 arithmetic is integer arithmetic on that grid, a division rounding  *)
(* down to the grid.  Time is counted in milliseconds.                     *)
(*                                                                         *)
(* One frame is: the Update schedule (commands of the game: target moves,  *)
(* spawns, despawns, camera fragments), then PostUpdate, where the four    *)
(* unordered camera systems run in an order the scheduler picks, their     *)
(* command buffers are applied, and the static anchor pass runs last.      *)
(***************************************************************************)
EXTENDS Integers, Sequences, FiniteSets, TLC

VARIABLES
    transform,      \* Transform.translation of every entity, NoVec when despawned
    binded,         \* Binded component of the main camera: None or the entity
    moveTo,         \* MoveTo component of the main camera: NoMoveTo or the record
    dynAnchored,    \* DynamicallyAnchored component of the main camera
    cmds,           \* command buffers of this frame's systems, in application order
    phase,          \* position in the frame: "Update", "PostUpdate", "Anchor"
    ran,            \* camera systems that already ran in this PostUpdate
    done,           \* the MoveTo whose timer finished in this PostUpdate, else NoMoveTo
    applied,        \* the command buffers applied at this PostUpdate's sync point
    frames,         \* number of frames started so far
    fragments,      \* number of camera fragments run so far
    shake,          \* Shake component of every shakeable entity
    lastShake,      \* the last shake pass: its delta, the translations before and after
    zorder,         \* ZOrder and UnorderedZ of the z-ordered entity, the queued insert,
                    \* the ZOrder values the passes saw, an external z write since;
                    \* its YOrigin, whether origin_y's query matches it, and the
                    \* insert of ZOrder that origin_y queued
    cam2,           \* Binded, MoveTo and DynamicallyAnchored of the second camera
    cmds2,          \* this frame's commands on the second camera, in application order
    screenShake,    \* the ScreenShake resource, and the trauma asked for by the
                    \* shake_with calls since the last run of screen_shake
    post            \* post process T: the cameras carrying it, the entities with a
                    \* PostProcessBinding child, the outcome of the last command and
                    \* whether the on_remove hook had queued it

vars == <<transform, binded, moveTo, dynAnchored, cmds, phase, ran, done, applied,
          frames, fragments, shake, lastShake, zorder, cam2, cmds2, screenShake, post>>

\* the components of the shake, z-order and post-processing plugins, which no
\* camera system reads or writes
pluginVars == <<shake, lastShake, zorder, screenShake, post>>

\* the same and the second camera's, for the steps that act on neither
otherVars == <<shake, lastShake, zorder, screenShake, post, cam2, cmds2>>

\* Option::None of an entity, of a Vec2 or Vec3, of a MoveTo
None == "none"
NoVec == <<>>
NoMoveTo == [none |-> TRUE]

----------------------------------------------------------------------------
(* Bounds of the model *)

MaxDelta == 2           \* a frame lasts 1..MaxDelta milliseconds
MaxDuration == 2        \* durations handed to the camera fragments: 1..MaxDuration
MaxFrames == 3          \* frames of a run
MaxFragments == 1       \* camera fragments the game runs in a run

----------------------------------------------------------------------------
(* The world: entities and their fixed components *)

Cam == "cam"
MainCamera == {Cam, "cam2"}          \* "cam2" is spawned by the game, if at all
AnchorTarget == {"tgt", "tgt2"}      \* "tgt2" is spawned by the game, if at all
Marked == {"tgt", "npc"}             \* entities a fragment's marker M can select
DynamicCameraAnchor == {"a1", "a2"}
CameraAnchor == {"s1", "s2"}
Shakeable == {"cam", "prop"}         \* entities with a Shake and ShakeSettings
Entities == MainCamera \cup AnchorTarget \cup Marked \cup DynamicCameraAnchor
                \cup CameraAnchor \cup Shakeable

\* order in which Query::iter() visits the dynamic anchors
DynAnchorOrder == <<"a1", "a2">>

Radius(a) == 20
Speed(a) == IF a = "a1" THEN 2 ELSE 1

\* CameraOffset component: Some(Vec2) or None
CameraOffset(e) == IF e = "tgt" THEN <<4, 0>> ELSE NoVec

\* positions the game moves the anchor target through
TargetPoints == { <<0, 0, 0>>, <<12, 16, 8>>, <<12, 20, 0>> }

SpawnPoint(e) ==
    CASE e = "cam" -> <<0, 0, 0>>
      [] e = "tgt" -> <<12, 20, 0>>
      [] e = "npc" -> <<8, 0, 0>>
      [] e = "a1"  -> <<0, 0, 0>>
      [] e = "a2"  -> <<24, 0, 0>>
      [] e = "s1"  -> <<16, 0, 0>>
      [] e = "s2"  -> <<0, 16, 0>>
      [] e = "prop" -> <<40, 40, 0>>
      [] e = "cam2" -> <<0, 40, 0>>
      [] e = "tgt2" -> <<12, 16, 8>>

Durations == 1..MaxDuration
Deltas == 1..MaxDelta
Easings == {"Linear", "QuadraticOut"}
FragmentOffsets == { <<0, 8>> }

----------------------------------------------------------------------------
(* Vec2 / Vec3 arithmetic *)

Add(a, b) == [i \in 1..3 |-> a[i] + b[i]]
XY(v) == <<v[1], v[2]>>
Extend(v2, z) == <<v2[1], v2[2], z>>
DistanceSquared(a, b) == (a[1] - b[1]) * (a[1] - b[1]) + (a[2] - b[2]) * (a[2] - b[2])
Abs(x) == IF x < 0 THEN -x ELSE x
Min(a, b) == IF a < b THEN a ELSE b

\* offset.map(|o| o.0).unwrap_or_default().extend(0.)
OffsetOf(e) == IF CameraOffset(e) = NoVec THEN <<0, 0, 0>> ELSE Extend(CameraOffset(e), 0)

----------------------------------------------------------------------------
(* Timer (TimerMode::Once) and easing *)

TimerNew(duration) == [elapsed |-> 0, duration |-> duration]
TimerTick(t, d) == [t EXCEPT !.elapsed = Min(t.elapsed + d, t.duration)]
TimerFinished(t) == t.elapsed >= t.duration
\* Timer::fraction() as <<numerator, denominator>>
TimerFraction(t) == IF t.duration = 0 THEN <<1, 1>> ELSE <<t.elapsed, t.duration>>

\* EaseFunction::eval at the fraction f, as <<numerator, denominator>>
Ease(easing, f) ==
    IF easing = "Linear"
    THEN f
    ELSE <<f[2] * f[2] - (f[2] - f[1]) * (f[2] - f[1]), f[2] * f[2]>>

\* EasingCurve::new(start, end, easing).sample(f)
Sample(start, end, easing, f) ==
    LET w == Ease(easing, f)
    IN  [i \in 1..3 |-> start[i] + ((end[i] - start[i]) * w[1]) \div w[2]]

----------------------------------------------------------------------------
(* MoveTo and Domain *)

MoveToNew(duration, start, end, easing) ==
    [timer |-> TimerNew(duration), easing |-> easing,
     domain |-> [kind |-> "Positions", start |-> start, end |-> end]]

MoveToNewWithEntity(duration, start, target, easing) ==
    [timer |-> TimerNew(duration), easing |-> easing,
     domain |-> [kind |-> "Entity", start |-> start, target |-> target]]

MoveToTick_Paused(m, d) ==
    IF m.domain.kind = "Entity" /\ transform[m.domain.target] = NoVec
    THEN m
    ELSE [m EXCEPT !.timer = TimerTick(m.timer, d)]

MoveToTick(m, d) == [m EXCEPT !.timer = TimerTick(m.timer, d)]
MoveToComplete(m) == TimerFinished(m.timer)
DomainTarget(dom) == IF dom.kind = "Entity" THEN dom.target ELSE None

----------------------------------------------------------------------------
(* Commands and their application to the main camera *)

InsertMoveTo(m)       == [op |-> "InsertMoveTo", moveTo |-> m]
InsertMoveToDyn(m, a) == [op |-> "InsertMoveToDyn", moveTo |-> m, anchor |-> a]
InsertBinded(e)       == [op |-> "InsertBinded", entity |-> e]
RemoveMoveTo          == [op |-> "RemoveMoveTo"]
RemoveBinded          == [op |-> "RemoveBinded"]
RemoveDyn             == [op |-> "RemoveDyn"]

\* the components of the main camera that commands change
CamComponents == [binded |-> binded, moveTo |-> moveTo, dynAnchored |-> dynAnchored]

\* a camera without Binded, MoveTo and DynamicallyAnchored
NoComponents == [binded |-> None, moveTo |-> NoMoveTo, dynAnchored |-> None]

\* the components of camera c
Components(c) == IF c = Cam THEN CamComponents ELSE cam2

\* on_insert hook of MoveTo: its command is flushed right after the insert
OnInsertMoveTo(w) == [w EXCEPT !.binded = None]

ApplyCommand(w, c) ==
    CASE c.op = "InsertMoveTo"    -> OnInsertMoveTo([w EXCEPT !.moveTo = c.moveTo])
      [] c.op = "InsertMoveToDyn" ->
            OnInsertMoveTo([w EXCEPT !.moveTo = c.moveTo, !.dynAnchored = c.anchor])
      [] c.op = "InsertBinded"    -> [w EXCEPT !.binded = c.entity]
      [] c.op = "RemoveMoveTo"    -> [w EXCEPT !.moveTo = NoMoveTo]
      [] c.op = "RemoveBinded"    -> [w EXCEPT !.binded = None]
      [] c.op = "RemoveDyn"       -> [w EXCEPT !.dynAnchored = None]

RECURSIVE ApplyAll(_, _)
ApplyAll(w, q) == IF q = <<>> THEN w ELSE ApplyAll(ApplyCommand(w, Head(q)), Tail(q))

\* the camera's components become those of w
SetCamera(w) ==
    /\ binded' = w.binded
    /\ moveTo' = w.moveTo
    /\ dynAnchored' = w.dynAnchored

----------------------------------------------------------------------------
(* Queries *)

Exists(e) == transform[e] # NoVec

\* Query<(&Transform, Option<&CameraOffset>), Without<MainCamera>>::get(e)
TargetsGet(e) == e \in Entities /\ e \notin MainCamera /\ Exists(e)

\* Query<.., With<AnchorTarget>>::get_single(): the entity, or None on error
AnchorTargetSingle ==
    LET s == {e \in AnchorTarget : Exists(e)}
    IN  IF Cardinality(s) = 1 THEN CHOOSE e \in s : TRUE ELSE None

\* Query<&Transform, (With<CameraAnchor>, Without<MainCamera>)>::get_single()
CameraAnchorSingle ==
    LET s == {e \in CameraAnchor \ MainCamera : Exists(e)}
    IN  IF Cardinality(s) = 1 THEN CHOOSE e \in s : TRUE ELSE None

\* Option<Single<Entity, (With<M>, With<Transform>)>> for the marker of entity e
MarkedSingle(e) == IF e \in Marked /\ Exists(e) THEN e ELSE None

\* get_single() and Option<Single<..>> over the set s of matching entities
QuerySingle(s) == IF Cardinality(s) = 1 THEN CHOOSE e \in s : TRUE ELSE None

BindCameraSingle_Anchored == QuerySingle({c \in MainCamera : Exists(c)})

\* Query<.., (With<MainCamera>, Without<DynamicallyAnchored>)>::get_single()
BindCameraSingle ==
    QuerySingle({c \in MainCamera : Exists(c) /\ Components(c).dynAnchored = None})

\* Query<(.., &DynamicallyAnchored), With<MainCamera>>::get_single()
UnbindCameraSingle ==
    QuerySingle({c \in MainCamera : Exists(c) /\ Components(c).dynAnchored # None})

\* Option<Single<(&mut Transform, &Binded), With<MainCamera>>>
BindedCameraSingle ==
    QuerySingle({c \in MainCamera : Exists(c) /\ Components(c).binded # None})

\* Option<Single<(Entity, &mut Transform, &mut MoveTo), With<MainCamera>>>
MoveToCameraSingle ==
    QuerySingle({c \in MainCamera : Exists(c) /\ Components(c).moveTo # NoMoveTo})

\* commands.entity(c): the commands q are queued on camera c
Queue(c, q) ==
    /\ cmds' = IF c = Cam THEN cmds \o q ELSE cmds
    /\ cmds2' = IF c = "cam2" THEN cmds2 \o q ELSE cmds2

----------------------------------------------------------------------------
(* Resources *)

\* ScreenShake::default(), no shake_with call yet
ScreenShakeDefault ==
    [max_offset |-> 0, trauma |-> 0, camera_decay |-> 0, trauma_decay |-> 0,
     asked |-> NoVec]

----------------------------------------------------------------------------
(* Initial state *)

Init ==
    /\ transform = [e \in Entities |-> IF e \in CameraAnchor \cup {"cam2", "tgt2"} THEN NoVec
                                     ELSE SpawnPoint(e)]
    /\ binded = None
    /\ moveTo = NoMoveTo
    /\ dynAnchored = None
    /\ cmds = <<>>
    /\ phase = "Update"
    /\ ran = {}
    /\ done = NoMoveTo
    /\ applied = <<>>
    /\ frames = 0
    /\ fragments = 0
    /\ shake = [e \in Shakeable |-> [trauma |-> 0, reference_translation |-> NoVec]]
    /\ lastShake = [delta |-> 0,
                    unshaken |-> [e \in Shakeable |-> SpawnPoint(e)],
                    shaken |-> [e \in Shakeable |-> SpawnPoint(e)]]
    /\ zorder = [order |-> NoVec, changed |-> FALSE, unordered |-> NoVec,
                 pending |-> NoVec, seen |-> <<>>, written |-> FALSE,
                 yorigin |-> NoVec, dirty |-> FALSE, derived |-> NoVec]
    /\ post = [on |-> {}, bound |-> {}, log |-> "none", hook |-> FALSE]
    /\ cam2 = NoComponents
    /\ cmds2 = <<>>
    /\ screenShake = ScreenShakeDefault

----------------------------------------------------------------------------------------------------------------------------------------------------
(* Update schedule: the game moves, spawns and despawns entities and runs  *)
(* camera fragments.  A fragment's commands are applied at the sync point  *)
(* that ends its schedule, before PostUpdate.                              *)

Systems == {"bind_to_dyn_anchor", "unbind_dyn_anchor", "camera_binded", "camera_move_to"}

\* the frame is in its Update schedule; what PostUpdate recorded is dropped
InUpdate == phase \in {"Update", "FrameEnd"} /\ frames < MaxFrames
EnterUpdate ==
    /\ phase' = "Update"
    /\ ran' = {}
    /\ done' = NoMoveTo
    /\ applied' = <<>>
    /\ UNCHANGED <<cmds, cmds2, frames>>
    /\ UNCHANGED <<shake, lastShake, zorder, screenShake>>

MoveTarget(p) ==
    /\ InUpdate
    /\ \E e \in AnchorTarget :
        /\ Exists(e)
        /\ transform[e] # p
        /\ transform' = [transform EXCEPT ![e] = p]
    /\ UNCHANGED fragments
    /\ EnterUpdate
    /\ UNCHANGED <<post, cam2>>
    /\ UNCHANGED <<binded, moveTo, dynAnchored>>

\* Query<Entity, With<M>>::get_single() with M = MainCamera, in the world tr
MarkerCameraSingle(tr) ==
    LET s == {c \in MainCamera : tr[c] # NoVec}
    IN  IF Cardinality(s) = 1 THEN CHOOSE c \in s : TRUE ELSE None

\* remove::<T, M>: T::remove on the camera with M, or error!
PostRemove(p, tr) ==
    IF MarkerCameraSingle(tr) = None THEN [p EXCEPT !.log = "remove failed", !.hook = FALSE]
    ELSE [p EXCEPT !.on = @ \ {MarkerCameraSingle(tr)}, !.log = "remove", !.hook = FALSE]

OnRemoveBinding_Keep(p, tr) == [p EXCEPT !.log = "remove", !.hook = TRUE]

\* the on_remove hook of PostProcessBinding: queue(remove::<T, M>)
OnRemoveBinding(p, tr) == [PostRemove(p, tr) EXCEPT !.hook = TRUE]

Despawn_Counted(e) ==
    /\ InUpdate
    /\ Exists(e)
    /\ transform' = [transform EXCEPT ![e] = NoVec]
    /\ UNCHANGED fragments
    /\ EnterUpdate
    /\ LET gone == [post EXCEPT !.on = @ \ {e}, !.bound = @ \ {e}]
       IN  post' = IF e \in post.bound /\ gone.bound = {}
                   THEN OnRemoveBinding(gone, transform') ELSE gone
    /\ IF e = Cam THEN SetCamera(NoComponents) ELSE UNCHANGED <<binded, moveTo, dynAnchored>>
    /\ cam2' = IF e = "cam2" THEN NoComponents ELSE cam2

\* the entity is despawned with its components and its children
Despawn(e) ==
    /\ InUpdate
    /\ Exists(e)
    /\ transform' = [transform EXCEPT ![e] = NoVec]
    /\ UNCHANGED fragments
    /\ EnterUpdate
    /\ LET gone == [post EXCEPT !.on = @ \ {e}, !.bound = @ \ {e}]
       IN  post' = IF e \in post.bound THEN OnRemoveBinding(gone, transform') ELSE gone
    /\ IF e = Cam THEN SetCamera(NoComponents) ELSE UNCHANGED <<binded, moveTo, dynAnchored>>
    /\ cam2' = IF e = "cam2" THEN NoComponents ELSE cam2

Spawn(e) ==
    /\ InUpdate
    /\ ~Exists(e)
    /\ transform' = [transform EXCEPT ![e] = SpawnPoint(e)]
    /\ UNCHANGED fragments
    /\ EnterUpdate
    /\ UNCHANGED <<post, cam2>>
    /\ UNCHANGED <<binded, moveTo, dynAnchored>>

\* commands.entity(camera).insert(Binded(entity))
BindCameraCmds(e) == <<InsertBinded(e)>>

bind_camera(e) ==
    /\ InUpdate
    /\ MarkerCameraSingle(transform) = Cam
    /\ MarkedSingle(e) # None
    /\ SetCamera(ApplyAll(CamComponents, BindCameraCmds(MarkedSingle(e))))
    /\ fragments < MaxFragments
    /\ fragments' = fragments + 1
    /\ EnterUpdate
    /\ UNCHANGED <<post, cam2>>
    /\ UNCHANGED transform

\* CameraCurveFragment::move_camera_to and ::move_then_bind_camera (on_start)
move_camera_to(e, offset, duration) ==
    /\ InUpdate
    /\ MarkerCameraSingle(transform) = Cam
    /\ MarkedSingle(e) # None
    /\ SetCamera(ApplyAll(CamComponents,
            << InsertMoveTo(MoveToNew(duration, transform[Cam],
                                      Add(transform[e], Extend(offset, 0)), "Linear")),
               RemoveBinded >>))
    /\ fragments < MaxFragments
    /\ fragments' = fragments + 1
    /\ EnterUpdate
    /\ UNCHANGED <<post, cam2>>
    /\ UNCHANGED transform

\* CameraCurveFragment::move_camera_curve and ::move_curve_then_bind_camera (on_start)
move_camera_curve(e, offset, duration, curve) ==
    /\ InUpdate
    /\ MarkerCameraSingle(transform) = Cam
    /\ MarkedSingle(e) # None
    /\ SetCamera(ApplyAll(CamComponents,
            << InsertMoveTo(MoveToNew(duration, transform[Cam],
                                      Add(Add(transform[e], Extend(offset, 0)), OffsetOf(e)),
                                      curve)),
               RemoveBinded >>))
    /\ fragments < MaxFragments
    /\ fragments' = fragments + 1
    /\ EnterUpdate
    /\ UNCHANGED <<post, cam2>>
    /\ UNCHANGED transform

\* durations the game hands to MoveTo::new_with_entity
EntityDurations == 2..(MaxDuration + 1)

\* the game inserts MoveTo::new_with_entity(duration, camera translation, e, Linear)
\* on the camera
new_with_entity(e, duration) ==
    /\ InUpdate
    /\ MarkerCameraSingle(transform) = Cam
    /\ TargetsGet(e)
    /\ SetCamera(ApplyAll(CamComponents,
            << InsertMoveTo(MoveToNewWithEntity(duration, transform[Cam], e, "Linear")) >>))
    /\ fragments < MaxFragments
    /\ fragments' = fragments + 1
    /\ EnterUpdate
    /\ UNCHANGED <<post, cam2>>
    /\ UNCHANGED transform

\* the frame's Update is over; PostUpdate starts
Tick ==
    /\ InUpdate
    /\ frames < MaxFrames
    /\ frames' = frames + 1
    /\ UNCHANGED fragments
    /\ phase' = "PostUpdate"
    /\ ran' = {}
    /\ done' = NoMoveTo
    /\ applied' = <<>>
    /\ UNCHANGED <<transform, binded, moveTo, dynAnchored, cmds>>
    /\ UNCHANGED otherVars

----------------------------------------------------------------------------
(* PostUpdate: dynamic anchors *)

BindInRadius_Strict(a, t) ==
    Abs(DistanceSquared(XY(transform[a]), XY(t))) < Radius(a) * Radius(a)

\* the radius test of bind_to_dyn_anchor for anchor a and target translation t
BindInRadius(a, t) ==
    Abs(DistanceSquared(XY(transform[a]), XY(t))) <= Radius(a) * Radius(a)

\* the radius test of unbind_dyn_anchor
UnbindOutOfRadius(a, t) ==
    Abs(DistanceSquared(XY(t), XY(transform[a]))) > Radius(a) * Radius(a)

BindCommand_ToTarget(a) ==
    InsertMoveToDyn(MoveToNew(Speed(a), transform[BindCameraSingle],
                              transform[AnchorTargetSingle],
                              "QuadraticOut"), a)

\* the command bind_to_dyn_anchor queues for anchor a
BindCommand(a) ==
    InsertMoveToDyn(MoveToNew(Speed(a), transform[BindCameraSingle], transform[a],
                              "QuadraticOut"), a)

UnbindCommands_KeepRecord(a, t) ==
    << InsertMoveTo(MoveToNewWithEntity(Speed(a), transform[UnbindCameraSingle], t,
                                        "QuadraticOut")) >>

\* the commands unbind_dyn_anchor queues for anchor a and target entity t
UnbindCommands(a, t) ==
    << InsertMoveTo(MoveToNewWithEntity(Speed(a), transform[UnbindCameraSingle], t,
                                        "QuadraticOut")),
       RemoveDyn >>

\* for (entity, anchor, transform) in q.iter() { if .. { commands.insert(..) } }
RECURSIVE BindLoop(_, _)
BindLoop(order, t) ==
    IF order = <<>> THEN <<>>
    ELSE LET a == Head(order)
         IN  (IF Exists(a) /\ BindInRadius(a, t) THEN <<BindCommand(a)>> ELSE <<>>)
             \o BindLoop(Tail(order), t)

BindToDynAnchorCmds ==
    IF BindCameraSingle = None THEN <<>>            \* camera.get_single() fails
    ELSE IF AnchorTargetSingle = None THEN <<>>     \* target.get_single() fails
    ELSE BindLoop(DynAnchorOrder, transform[AnchorTargetSingle])

bind_to_dyn_anchor ==
    /\ phase = "PostUpdate"
    /\ "bind_to_dyn_anchor" \notin ran
    /\ ran' = ran \cup {"bind_to_dyn_anchor"}
    /\ Queue(BindCameraSingle, BindToDynAnchorCmds)
    /\ UNCHANGED <<transform, binded, moveTo, dynAnchored, phase, done, applied, frames, fragments>>
    /\ UNCHANGED <<pluginVars, cam2>>

UnbindDynAnchorCmds_ClearsDangling ==
    IF UnbindCameraSingle = None THEN <<>>
    ELSE LET anchor_ref == Components(UnbindCameraSingle).dynAnchored
         IN  IF ~(anchor_ref \in DynamicCameraAnchor /\ Exists(anchor_ref)) THEN <<RemoveDyn>>
             ELSE IF AnchorTargetSingle = None THEN <<>>
             ELSE IF UnbindOutOfRadius(anchor_ref, transform[AnchorTargetSingle])
                  THEN UnbindCommands(anchor_ref, AnchorTargetSingle)
                  ELSE <<>>

UnbindDynAnchorCmds ==
    IF UnbindCameraSingle = None THEN <<>>          \* camera.get_single() fails
    ELSE LET anchor_ref == Components(UnbindCameraSingle).dynAnchored
         IN  IF ~(anchor_ref \in DynamicCameraAnchor /\ Exists(anchor_ref)) THEN <<>>
             ELSE IF AnchorTargetSingle = None THEN <<>>
             ELSE IF UnbindOutOfRadius(anchor_ref, transform[AnchorTargetSingle])
                  THEN UnbindCommands(anchor_ref, AnchorTargetSingle)
                  ELSE <<>>

unbind_dyn_anchor ==
    /\ phase = "PostUpdate"
    /\ "unbind_dyn_anchor" \notin ran
    /\ ran' = ran \cup {"unbind_dyn_anchor"}
    /\ Queue(UnbindCameraSingle, UnbindDynAnchorCmds)
    /\ UNCHANGED <<transform, binded, moveTo, dynAnchored, phase, done, applied, frames, fragments>>
    /\ UNCHANGED <<pluginVars, cam2>>

----------------------------------------------------------------------------
(* PostUpdate: camera motion *)

FollowPoint_NoOffset(e) == transform[e]

\* t.translation + offset.map(|o| o.0).unwrap_or_default().extend(0.)
FollowPoint(e) == Add(transform[e], OffsetOf(e))

camera_binded_Unbinds ==
    /\ phase = "PostUpdate"
    /\ "camera_binded" \notin ran
    /\ ran' = ran \cup {"camera_binded"}
    /\ IF binded # None /\ TargetsGet(binded)
       THEN transform' = [transform EXCEPT ![Cam] = FollowPoint(binded)] /\ UNCHANGED binded
       ELSE UNCHANGED transform /\ binded' = None
    /\ UNCHANGED <<moveTo, dynAnchored, cmds, phase, done, applied, frames, fragments>>
    /\ UNCHANGED otherVars

camera_binded ==
    /\ phase = "PostUpdate"
    /\ "camera_binded" \notin ran
    /\ ran' = ran \cup {"camera_binded"}
    /\ LET c == BindedCameraSingle
       IN  IF c # None /\ TargetsGet(Components(c).binded)
           THEN transform' = [transform EXCEPT ![c] = FollowPoint(Components(c).binded)]
           ELSE UNCHANGED transform    \* no single camera with Binded, or warn_once!
    /\ UNCHANGED <<binded, moveTo, dynAnchored, cmds, phase, done, applied, frames, fragments>>
    /\ UNCHANGED otherVars

CompleteCmds_NoBinded(m) == <<RemoveMoveTo>>

\* the commands of the completion branch for the ticked MoveTo m
CompleteCmds(m) ==
    <<RemoveMoveTo>> \o
    (IF DomainTarget(m.domain) # None THEN <<InsertBinded(DomainTarget(m.domain))>> ELSE <<>>)

CurveEnd_AtSpawn(m) ==
    IF m.domain.kind = "Positions" THEN m.domain.end
    ELSE Add(SpawnPoint(m.domain.target), OffsetOf(m.domain.target))

\* the end point the curve of the in-flight MoveTo m is built with
CurveEnd(m) ==
    IF m.domain.kind = "Positions" THEN m.domain.end ELSE FollowPoint(m.domain.target)

\* the translation written for the in-flight MoveTo m
MoveToSample(m) == Sample(m.domain.start, CurveEnd(m), m.easing, TimerFraction(m.timer))

camera_move_to_Resets(delta) ==
    /\ phase = "PostUpdate"
    /\ "camera_move_to" \notin ran
    /\ ran' = ran \cup {"camera_move_to"}
    /\ LET c == MoveToCameraSingle
       IN  IF c = None
           THEN UNCHANGED <<moveTo, cam2, cmds, cmds2, done, transform>>
           ELSE LET m == MoveToTick(Components(c).moveTo, delta)
                IN  /\ IF c = Cam
                       THEN moveTo' = m /\ UNCHANGED cam2
                       ELSE cam2' = [cam2 EXCEPT !.moveTo = m] /\ UNCHANGED moveTo
                    /\ IF MoveToComplete(m)
                       THEN /\ Queue(c, CompleteCmds(m))
                            /\ done' = IF c = Cam THEN m ELSE done
                            /\ UNCHANGED transform
                       ELSE /\ UNCHANGED <<cmds, cmds2, done>>
                            /\ IF m.domain.kind = "Entity" /\ ~TargetsGet(m.domain.target)
                               THEN transform' = [transform EXCEPT ![c] = m.domain.start]
                               ELSE transform' = [transform EXCEPT ![c] = MoveToSample(m)]
    /\ UNCHANGED <<binded, dynAnchored, phase, applied, frames, fragments>>
    /\ UNCHANGED pluginVars

\* delta is time.delta() of the frame, in milliseconds
camera_move_to(delta) ==
    /\ phase = "PostUpdate"
    /\ "camera_move_to" \notin ran
    /\ ran' = ran \cup {"camera_move_to"}
    /\ LET c == MoveToCameraSingle
       IN  IF c = None
           THEN UNCHANGED <<moveTo, cam2, cmds, cmds2, done, transform>>
           ELSE LET m == MoveToTick(Components(c).moveTo, delta)
                IN  /\ IF c = Cam
                       THEN moveTo' = m /\ UNCHANGED cam2
                       ELSE cam2' = [cam2 EXCEPT !.moveTo = m] /\ UNCHANGED moveTo
                    /\ IF MoveToComplete(m)
                       THEN /\ Queue(c, CompleteCmds(m))
                            /\ done' = IF c = Cam THEN m ELSE done
                            /\ UNCHANGED transform
                       ELSE /\ UNCHANGED <<cmds, cmds2, done>>
                            /\ IF m.domain.kind = "Entity" /\ ~TargetsGet(m.domain.target)
                               THEN UNCHANGED transform    \* return
                               ELSE transform' = [transform EXCEPT ![c] = MoveToSample(m)]
    /\ UNCHANGED <<binded, dynAnchored, phase, applied, frames, fragments>>
    /\ UNCHANGED pluginVars

\* the sync point between the four camera systems and the static anchor pass
ApplyDeferred ==
    /\ phase = "PostUpdate"
    /\ Systems \subseteq ran
    /\ SetCamera(ApplyAll(CamComponents, cmds))
    /\ cam2' = ApplyAll(cam2, cmds2)
    /\ applied' = cmds
    /\ cmds' = <<>>
    /\ cmds2' = <<>>
    /\ phase' = "Anchor"
    /\ UNCHANGED <<transform, ran, done, frames, fragments>>
    /\ UNCHANGED pluginVars

----------------------------------------------------------------------------
(* PostUpdate: static anchor *)

anchor_WhenFree ==
    /\ phase = "Anchor"
    /\ IF CameraAnchorSingle # None /\ moveTo = NoMoveTo /\ binded = None
       THEN transform' = [transform EXCEPT ![Cam] = transform[CameraAnchorSingle]]
       ELSE UNCHANGED transform
    /\ phase' = "FrameEnd"
    /\ UNCHANGED <<binded, moveTo, dynAnchored, cmds, ran, done, applied, frames,
                   fragments>>
    /\ UNCHANGED otherVars

anchor ==
    /\ phase = "Anchor"
    /\ IF CameraAnchorSingle # None /\ MarkerCameraSingle(transform) # None
       THEN transform' = [transform EXCEPT
                            ![MarkerCameraSingle(transform)] = transform[CameraAnchorSingle]]
       ELSE UNCHANGED transform    \* warn_once!, or no single camera
    /\ phase' = "FrameEnd"
    /\ UNCHANGED <<binded, moveTo, dynAnchored, cmds, ran, done, applied, frames, fragments>>
    /\ UNCHANGED otherVars

----------------------------------------------------------------------------
(* Trauma shake (src/src/shake.rs).  Trauma is counted in units of          *)
(* 1/TraumaOne, so that TraumaOne is the trauma 1.0.                        *)

TraumaOne == 4

\* order in which the shake query visits the shakeable entities
ShakeOrder == <<"prop", "cam">>

\* ShakeSettings of the entities: decay_per_second, trauma_power, amplitude
DecayPerSecond(e) == IF e = "cam" THEN 250 ELSE 0
TraumaPower == 2
Amplitude == 16

\* amounts handed to add_trauma, in trauma units: negative, partial, above 1.0
TraumaAmounts == {-1, 2, 5}
\* time.delta() of a shake pass, in milliseconds
ShakeDeltas == 0..MaxDelta
\* the two fbm_simplex_2d samples of a frame
Noise == { <<1, -1>>, <<-1, 0>> }
\* translations the game gives a shakeable entity during Update
ShakenPoints == { <<40, 40, 0>>, <<44, 40, 0>> }

Max(a, b) == IF a > b THEN a ELSE b
Clamp(x, lo, hi) == Max(lo, Min(x, hi))

AddTrauma_NoCeiling(trauma, amount) == Max(trauma + amount, 0)

\* (self.trauma + amount).clamp(0., 1.)
AddTrauma(trauma, amount) == Clamp(trauma + amount, 0, TraumaOne)

\* settings.decay_per_second * time.delta_secs(), in trauma units
Decay(e, delta) == (DecayPerSecond(e) * delta * TraumaOne) \div 1000

\* f32::max(shake.trauma - settings.decay_per_second * time.delta_secs(), 0.0)
Decayed(e, trauma, delta) == Max(trauma - Decay(e, delta), 0)

\* f32::powf(shake.trauma, settings.trauma_power), in units of 1/TraumaOne^2
TraumaAmount(trauma) == trauma * trauma

\* settings.amplitude * trauma_amount * Vec2::new(noise, noise)
ShakeOffset(trauma, noise) ==
    << (Amplitude * TraumaAmount(trauma) * noise[1]) \div (TraumaOne * TraumaOne),
       (Amplitude * TraumaAmount(trauma) * noise[2]) \div (TraumaOne * TraumaOne),
       0 >>

\* Shake::add_trauma on the Shake of entity e
add_trauma(e, amount) ==
    /\ phase = "Update"
    /\ shake' = [shake EXCEPT ![e].trauma = AddTrauma(shake[e].trauma, amount)]
    /\ UNCHANGED <<transform, binded, moveTo, dynAnchored, cmds, cam2, cmds2,
                   screenShake, phase, ran, done, applied, frames, fragments,
                   lastShake, zorder, post>>

\* AddTraumaCommand::apply: add_trauma on every Shake of the world
AddTraumaCommand(amount) ==
    /\ phase = "Update"
    /\ shake' = [e \in Shakeable |->
                    [shake[e] EXCEPT !.trauma = AddTrauma(shake[e].trauma, amount)]]
    /\ UNCHANGED <<transform, binded, moveTo, dynAnchored, cmds, cam2, cmds2,
                   screenShake, phase, ran, done, applied, frames, fragments,
                   lastShake, zorder, post>>

\* the game moves a shakeable entity during Update
MoveShaken(e, p) ==
    /\ phase = "Update"
    /\ Exists(e)
    /\ transform[e] # p
    /\ transform' = [transform EXCEPT ![e] = p]
    /\ UNCHANGED <<binded, moveTo, dynAnchored, cmds, cam2, cmds2, screenShake, phase,
                   ran, done, applied, frames, fragments, shake, lastShake, zorder,
                   post>>

\* for (mut shake, mut transform, settings) in &mut shakes { .. }: the Shake
\* components sh and the translations tr after the loop over order
RECURSIVE ShakeLoop(_, _, _, _, _)
ShakeLoop(order, sh, tr, delta, noise) ==
    IF order = <<>> THEN [shake |-> sh, transform |-> tr]
    ELSE LET e == Head(order)
             trauma == Decayed(e, sh[e].trauma, delta)
         IN  IF tr[e] = NoVec
             THEN ShakeLoop(Tail(order), sh, tr, delta, noise)  \* not in the query
             ELSE IF TraumaAmount(trauma) <= 0
             THEN [shake |-> [sh EXCEPT ![e].trauma = trauma], transform |-> tr]  \* return
             ELSE ShakeLoop(Tail(order),
                            [sh EXCEPT ![e] = [trauma |-> trauma,
                                               reference_translation |-> tr[e]]],
                            [tr EXCEPT ![e] = Add(tr[e], ShakeOffset(trauma, noise))],
                            delta, noise)

\* the shake system of PostUpdate; delta is time.delta() in milliseconds
shake_system(delta, noise) ==
    /\ phase \in {"PostUpdate", "Anchor", "FrameEnd"}
    /\ "shake" \notin ran
    /\ ran' = ran \cup {"shake"}
    /\ LET r == ShakeLoop(ShakeOrder, shake, transform, delta, noise)
       IN  /\ shake' = r.shake
           /\ transform' = r.transform
    /\ lastShake' = [delta |-> delta,
                     unshaken |-> [e \in Shakeable |-> transform[e]],
                     shaken |-> [e \in Shakeable |-> transform'[e]]]
    /\ UNCHANGED <<binded, moveTo, dynAnchored, cmds, cam2, cmds2, screenShake, phase,
                   done, applied, frames, fragments, zorder, post>>

\* PostUpdate starts once the frame's PreUpdate and Update are over
TickRestored == phase = "Update" /\ Tick

restore_KeepOffset ==
    /\ "shake" \in ran
    /\ shake' = [e \in Shakeable |->
                    IF Exists(e) THEN [shake[e] EXCEPT !.reference_translation = NoVec]
                    ELSE shake[e]]
    /\ phase' = "Update"
    /\ ran' = {}
    /\ done' = NoMoveTo
    /\ applied' = <<>>
    /\ UNCHANGED <<transform, binded, moveTo, dynAnchored, cmds, cam2, cmds2,
                   screenShake, frames, fragments, lastShake, zorder, post>>

\* the restore system of the next frame's PreUpdate
restore ==
    /\ "shake" \in ran
    /\ transform' = [e \in Entities |->
                        IF e \in Shakeable /\ Exists(e)
                           /\ shake[e].reference_translation # NoVec
                        THEN shake[e].reference_translation
                        ELSE transform[e]]
    /\ shake' = [e \in Shakeable |->
                    IF Exists(e) THEN [shake[e] EXCEPT !.reference_translation = NoVec]
                    ELSE shake[e]]
    /\ phase' = "Update"
    /\ ran' = {}
    /\ done' = NoMoveTo
    /\ applied' = <<>>
    /\ UNCHANGED <<binded, moveTo, dynAnchored, cmds, cam2, cmds2, screenShake, frames,
                   fragments, lastShake, zorder, post>>

----------------------------------------------------------------------------
(* Z-ordering (src/src/zorder.rs).  One entity carries the ZOrder; z and    *)
(* ZOrder values are counted in tenths.  An Option<f32> is <<>> or <<v>>.   *)

ZEntity == "prop"

\* ZOrder values and z coordinates the game sets
ZOrders == {5, 8}
ZValues == {0, 100}

\* the cameras' and shake's components, untouched by the z-ordering
nonZVars == <<binded, moveTo, dynAnchored, cmds, cam2, cmds2, screenShake, done,
              applied, fragments, shake, lastShake, post>>

\* the game inserts or changes the ZOrder of the entity during Update
SetZOrder(v) ==
    /\ phase = "Update"
    /\ zorder' = [zorder EXCEPT !.order = <<v>>, !.changed = TRUE]
    /\ UNCHANGED <<transform, phase, ran, frames>>
    /\ UNCHANGED nonZVars

\* the game writes the z coordinate of the entity during Update
WriteZ(z) ==
    /\ phase = "Update"
    /\ transform[ZEntity][3] # z
    /\ transform' = [transform EXCEPT ![ZEntity][3] = z]
    /\ zorder' = [zorder EXCEPT !.written = (zorder.unordered # NoVec),
                                !.dirty = @ \/ zorder.yorigin # NoVec]
    /\ UNCHANGED <<phase, ran, frames>>
    /\ UNCHANGED nonZVars

OrderedZ_NoBase(unordered, order) == order

\* unordered.0 + order.0
OrderedZ(unordered, order) == unordered + order

\* the order_z system of PostUpdate
order_z ==
    /\ phase \in {"PostUpdate", "Anchor", "FrameEnd"}
    /\ "order_z" \notin ran
    /\ ran' = ran \cup {"order_z"}
    /\ IF zorder.order # NoVec /\ zorder.changed /\ zorder.unordered = NoVec
       THEN \* new_order_query: Changed<ZOrder>, Without<UnorderedZ>
            /\ zorder' = [zorder EXCEPT !.pending = <<transform[ZEntity][3]>>,
                                        !.changed = FALSE, !.seen = Append(@, zorder.order[1]),
                                        !.dirty = @ \/ zorder.yorigin # NoVec]
            /\ transform' = [transform EXCEPT
                                ![ZEntity][3] = transform[ZEntity][3] + zorder.order[1]]
       ELSE IF zorder.order # NoVec /\ zorder.changed
       THEN \* changed_order_query: Changed<ZOrder> with UnorderedZ
            /\ zorder' = [zorder EXCEPT !.changed = FALSE, !.seen = Append(@, zorder.order[1]),
                                        !.written = FALSE,
                                        !.dirty = @ \/ zorder.yorigin # NoVec]
            /\ transform' = [transform EXCEPT
                                ![ZEntity][3] = OrderedZ(zorder.unordered[1], zorder.order[1])]
       ELSE UNCHANGED <<zorder, transform>>
    /\ UNCHANGED <<phase, frames>>
    /\ UNCHANGED nonZVars

\* the sync point that ends PostUpdate: insert(UnorderedZ(..)) is applied
ApplyZCommands ==
    /\ "order_z" \in ran
    /\ zorder' = [zorder EXCEPT
                    !.unordered = IF zorder.pending # NoVec THEN zorder.pending ELSE @,
                    !.pending = NoVec]
    /\ phase' = "Update"
    /\ ran' = {}
    /\ UNCHANGED <<transform, frames>>
    /\ UNCHANGED nonZVars

\* YOrigin offsets and y coordinates the game sets; with y = 40 at spawn every
\* sum is a multiple of 1000, so that the order is a whole number of tenths
YOrigins == {-40, 960}
YValues == {40, 1040}

\* -(origin.0 + transform.translation.y) / 10_000., in tenths
YOriginOrder(origin, y) == -((origin + y) \div 1000)

\* the game inserts or changes the YOrigin of the entity during Update
SetYOrigin(origin) ==
    /\ phase = "Update"
    /\ zorder' = [zorder EXCEPT !.yorigin = <<origin>>, !.dirty = TRUE]
    /\ UNCHANGED <<transform, phase, ran, frames>>
    /\ UNCHANGED nonZVars

\* the game writes the y coordinate of the entity during Update
WriteY(y) ==
    /\ phase = "Update"
    /\ transform[ZEntity][2] # y
    /\ transform' = [transform EXCEPT ![ZEntity][2] = y]
    /\ zorder' = [zorder EXCEPT !.dirty = @ \/ zorder.yorigin # NoVec]
    /\ UNCHANGED <<phase, ran, frames>>
    /\ UNCHANGED nonZVars

origin_y_Accumulates ==
    /\ phase \in {"PostUpdate", "Anchor", "FrameEnd"}
    /\ "origin_y" \notin ran
    /\ ran' = ran \cup {"origin_y"}
    /\ IF zorder.yorigin # NoVec /\ zorder.dirty
       THEN zorder' = [zorder EXCEPT
                          !.derived = << (IF zorder.order # NoVec THEN zorder.order[1] ELSE 0)
                                         + YOriginOrder(zorder.yorigin[1], transform[ZEntity][2]) >>,
                          !.dirty = FALSE]
       ELSE UNCHANGED zorder
    /\ UNCHANGED <<transform, phase, frames>>
    /\ UNCHANGED nonZVars

\* the origin_y system of PostUpdate: Or<(Changed<Transform>, Changed<YOrigin>)>
origin_y ==
    /\ phase \in {"PostUpdate", "Anchor", "FrameEnd"}
    /\ "origin_y" \notin ran
    /\ ran' = ran \cup {"origin_y"}
    /\ IF zorder.yorigin # NoVec /\ zorder.dirty
       THEN zorder' = [zorder EXCEPT
                          !.derived = << YOriginOrder(zorder.yorigin[1], transform[ZEntity][2]) >>,
                          !.dirty = FALSE]
       ELSE UNCHANGED zorder
    /\ UNCHANGED <<transform, phase, frames>>
    /\ UNCHANGED nonZVars

\* the sync point that ends PostUpdate once order_z and origin_y, which the plugin
\* leaves unordered, have both run: insert(UnorderedZ(..)) and insert(ZOrder(..))
ApplyZOrderCommands ==
    /\ {"order_z", "origin_y"} \subseteq ran
    /\ zorder' = [zorder EXCEPT
                    !.unordered = IF zorder.pending # NoVec THEN zorder.pending ELSE @,
                    !.pending = NoVec,
                    !.order = IF zorder.derived # NoVec THEN zorder.derived ELSE @,
                    !.changed = @ \/ zorder.derived # NoVec,
                    !.derived = NoVec]
    /\ phase' = "Update"
    /\ ran' = {}
    /\ UNCHANGED <<transform, frames>>
    /\ UNCHANGED nonZVars

----------------------------------------------------------------------------
(* Post processing (src/src/post_processing.rs) with M = MainCamera.  The   *)
(* commands are queued during Update and run at its sync point.             *)

\* entities a post process is bound to
PostOwners == {"tgt", "npc", "prop"}

\* apply::<M>(post_process)
PostApply(p, tr) ==
    IF MarkerCameraSingle(tr) = None THEN [p EXCEPT !.log = "apply failed", !.hook = FALSE]
    ELSE [p EXCEPT !.on = @ \cup {MarkerCameraSingle(tr)}, !.log = "apply", !.hook = FALSE]

\* bind::<T, M>(post_process, entity)
PostBind(p, tr, e) ==
    IF MarkerCameraSingle(tr) = None THEN [p EXCEPT !.log = "bind failed", !.hook = FALSE]
    ELSE [p EXCEPT !.on = @ \cup {MarkerCameraSingle(tr)}, !.bound = @ \cup {e},
                   !.log = "bind", !.hook = FALSE]

\* the components the post processing commands do not access
nonPostVars == <<transform, binded, moveTo, dynAnchored, cmds, cam2, cmds2,
                 screenShake, phase, ran, done, applied, frames, fragments, shake,
                 lastShake, zorder>>

\* commands.post_process::<M>(T)
post_process ==
    /\ phase = "Update"
    /\ post' = PostApply(post, transform)
    /\ UNCHANGED nonPostVars

\* commands.bind_post_process::<T, M>(T, entity); world.entity_mut(entity) needs
\* a living entity
bind_post_process(e) ==
    /\ phase = "Update"
    /\ Exists(e)
    /\ post' = PostBind(post, transform, e)
    /\ UNCHANGED nonPostVars

\* commands.remove_post_process::<T, M>()
remove_post_process ==
    /\ phase = "Update"
    /\ post' = PostRemove(post, transform)
    /\ UNCHANGED nonPostVars

----------------------------------------------------------------------------
(* Screen shake (src/src/screen_shake.rs).  Trauma is counted in units of   *)
(* 1/TraumaOne; camera_decay in ln 2 per millisecond, so that the nudge      *)
(* factor 1 - exp(-camera_decay * delta) is 1 - 1/2^(camera_decay * delta).  *)

\* the entities with a Camera
Cameras == MainCamera

\* max_offset, camera_decay and trauma_decay (per second) handed to ScreenShake::set
ScreenSettings == { <<16, 1, 250>> }
\* trauma handed to shake_with, in trauma units: negative, 0, 0.5 and 1.5
ScreenTraumas == {-2, 0, 2, 6}
\* the two samples of rng.gen_range(-1.0..1.0) of a run, in quarters
RngSamples == { <<-4, 2>>, <<2, 0>> }

nonScreenVars == <<binded, moveTo, dynAnchored, cmds, cam2, cmds2, phase, ran, done,
                   applied, fragments, shake, lastShake, zorder, post>>

\* ScreenShake::set
set(max_offset, camera_decay, trauma_decay) ==
    /\ phase = "Update"
    /\ screenShake' = [screenShake EXCEPT !.max_offset = max_offset,
                                          !.camera_decay = camera_decay,
                                          !.trauma_decay = trauma_decay]
    /\ UNCHANGED <<transform, frames, nonScreenVars>>

shake_with_Adds(trauma) ==
    /\ phase = "Update"
    /\ screenShake' = [screenShake EXCEPT !.trauma = Clamp(@ + trauma, 0, TraumaOne),
                                          !.asked = <<trauma>>]
    /\ UNCHANGED <<transform, frames, nonScreenVars>>

\* ScreenShake::shake_with
shake_with(trauma) ==
    /\ phase = "Update"
    /\ screenShake' = [screenShake EXCEPT !.trauma = trauma, !.asked = <<trauma>>]
    /\ UNCHANGED <<transform, frames, nonScreenVars>>

\* ScreenShake::shake
ScreenShake_shake == shake_with(TraumaOne)

RECURSIVE Pow2(_)
Pow2(n) == IF n = 0 THEN 1 ELSE 2 * Pow2(n - 1)

\* max_offset * shake * rng.gen_range(-1.0..1.0) for x and y, extended by 0
ScreenOffset(s, rx, ry) ==
    << (s.max_offset * s.trauma * s.trauma * rx) \div (TraumaOne * TraumaOne * 4),
       (s.max_offset * s.trauma * s.trauma * ry) \div (TraumaOne * TraumaOne * 4),
       0 >>

\* translation.smooth_nudge(&(translation + offset), decay_rate, delta)
SmoothNudge(v, offset, decay_rate, delta) ==
    LET d == Pow2(decay_rate * delta)
    IN  [i \in 1..3 |-> v[i] + (offset[i] * (d - 1)) \div d]

\* (trauma - trauma_decay * time.delta_secs()).clamp(0.0, 1.0)
ScreenTraumaDecayed(s, delta) ==
    Clamp(s.trauma - (s.trauma_decay * delta * TraumaOne) \div 1000, 0, TraumaOne)

\* the screen_shake system, the frame's one run of it; delta is time.delta() in
\* milliseconds, rx and ry the two samples of the random number generator
screen_shake(delta, rx, ry) ==
    /\ phase = "Update"
    /\ frames < MaxFrames
    /\ frames' = frames + 1
    /\ transform' =
          IF screenShake.trauma * screenShake.trauma > 0
          THEN [e \in Entities |->
                    IF e \in Cameras /\ Exists(e)
                    THEN SmoothNudge(transform[e], ScreenOffset(screenShake, rx, ry),
                                     screenShake.camera_decay, delta)
                    ELSE transform[e]]
          ELSE transform
    /\ screenShake' = [screenShake EXCEPT !.trauma = ScreenTraumaDecayed(screenShake, delta),
                                          !.asked = NoVec]
    /\ UNCHANGED nonScreenVars

----------------------------------------------------------------------------
(* Specification *)

Next ==
    \/ \E p \in TargetPoints : MoveTarget(p)
    \/ \E e \in Marked : bind_camera(e)
    \/ \E e \in Marked, o \in FragmentOffsets, d \in Durations : move_camera_to(e, o, d)
    \/ \E e \in Marked, o \in FragmentOffsets, d \in Durations, c \in Easings :
            move_camera_curve(e, o, d, c)
    \/ Tick
    \/ bind_to_dyn_anchor
    \/ unbind_dyn_anchor
    \/ camera_binded
    \/ \E d \in Deltas : camera_move_to(d)
    \/ ApplyDeferred
    \/ anchor

Spec == Init /\ [][Next]_vars

\* The frame with static camera anchors spawned and despawned by the game; the
\* camera is moved and bound by the dynamic anchors alone
NextStatic ==
    \/ \E p \in TargetPoints : MoveTarget(p)
    \/ \E e \in CameraAnchor : Despawn(e)
    \/ \E e \in CameraAnchor : Spawn(e)
    \/ Tick
    \/ bind_to_dyn_anchor
    \/ unbind_dyn_anchor
    \/ camera_binded
    \/ \E d \in Deltas : camera_move_to(d)
    \/ ApplyDeferred
    \/ anchor

SpecStatic == Init /\ [][NextStatic]_vars


\* The frame of the trauma shake alone: the game moves the shakeable entities and
\* adds trauma during Update, shake runs in PostUpdate, restore in PreUpdate
NextShake ==
    \/ \E e \in Shakeable, p \in ShakenPoints : MoveShaken(e, p)
    \/ \E e \in Shakeable, a \in TraumaAmounts : add_trauma(e, a)
    \/ \E a \in TraumaAmounts : AddTraumaCommand(a)
    \/ TickRestored
    \/ \E d \in ShakeDeltas, n \in Noise : shake_system(d, n)
    \/ restore

SpecShake == Init /\ [][NextShake]_vars

\* The frame of the z-ordering alone: the game sets the ZOrder and the z of the
\* entity during Update, order_z runs in PostUpdate
NextZOrder ==
    \/ \E v \in ZOrders : SetZOrder(v)
    \/ \E z \in ZValues : WriteZ(z)
    \/ TickRestored
    \/ order_z
    \/ ApplyZCommands

SpecZOrder == Init /\ [][NextZOrder]_vars

\* The z-ordering of an entity with a YOrigin: the game sets the YOrigin and
\* moves the entity; order_z and origin_y run in either order in PostUpdate.
NextYOrigin ==
    \/ \E origin \in YOrigins : SetYOrigin(origin)
    \/ \E y \in YValues : WriteY(y)
    \/ TickRestored
    \/ order_z
    \/ origin_y
    \/ ApplyZOrderCommands

SpecYOrigin == Init /\ [][NextYOrigin]_vars

\* The game applies, binds and removes a post process and spawns and despawns
\* the cameras and the entities the post process is bound to
NextPost ==
    \/ post_process
    \/ \E e \in PostOwners : bind_post_process(e)
    \/ remove_post_process
    \/ \E e \in PostOwners \cup MainCamera : Despawn(e)
    \/ \E e \in PostOwners \cup MainCamera : Spawn(e)

SpecPost == Init /\ [][NextPost]_vars

\* The frame with the entities a camera is bound to spawned and despawned by
\* the game
NextDespawn ==
    \/ \E p \in TargetPoints : MoveTarget(p)
    \/ \E e \in Marked : Despawn(e)
    \/ \E e \in Marked : Spawn(e)
    \/ \E e \in Marked : bind_camera(e)
    \/ Tick
    \/ bind_to_dyn_anchor
    \/ unbind_dyn_anchor
    \/ camera_binded
    \/ \E d \in Deltas : camera_move_to(d)
    \/ ApplyDeferred
    \/ anchor

SpecDespawn == Init /\ [][NextDespawn]_vars

\* The frame with a MoveTo toward an entity that the game despawns and spawns
\* again while the move is in flight
NextVanish ==
    \/ \E e \in Marked, d \in EntityDurations : new_with_entity(e, d)
    \/ \E e \in Marked : Despawn(e)
    \/ \E e \in Marked : Spawn(e)
    \/ Tick
    \/ bind_to_dyn_anchor
    \/ unbind_dyn_anchor
    \/ camera_binded
    \/ \E d \in Deltas : camera_move_to(d)
    \/ ApplyDeferred
    \/ anchor

SpecVanish == Init /\ [][NextVanish]_vars

\* The frame with a move started by a fragment and ticks whose deltas sum to at
\* most the move's duration, so that the timer's elapsed time is the total time
camera_move_to_within(delta) ==
    /\ moveTo # NoMoveTo => moveTo.timer.elapsed + delta <= moveTo.timer.duration
    /\ camera_move_to(delta)

NextTimed ==
    \/ \E e \in Marked, o \in FragmentOffsets, d \in Durations : move_camera_to(e, o, d)
    \/ \E e \in Marked, o \in FragmentOffsets, d \in Durations, c \in Easings :
            move_camera_curve(e, o, d, c)
    \/ Tick
    \/ bind_to_dyn_anchor
    \/ unbind_dyn_anchor
    \/ camera_binded
    \/ \E d \in Deltas : camera_move_to_within(d)
    \/ ApplyDeferred
    \/ anchor

SpecTimed == Init /\ [][NextTimed]_vars

\* The frame with the dynamic anchors despawned by the game
NextDangling ==
    \/ \E p \in TargetPoints : MoveTarget(p)
    \/ \E a \in DynamicCameraAnchor : Despawn(a)
    \/ Tick
    \/ bind_to_dyn_anchor
    \/ unbind_dyn_anchor
    \/ camera_binded
    \/ \E d \in Deltas : camera_move_to(d)
    \/ ApplyDeferred
    \/ anchor

SpecDangling == Init /\ [][NextDangling]_vars

\* The Update schedule with the ScreenShake resource: the game sets it up and
\* asks for shakes, a second camera comes and goes, screen_shake runs once a frame
NextScreen ==
    \/ \E s \in ScreenSettings : set(s[1], s[2], s[3])
    \/ \E t \in ScreenTraumas : shake_with(t)
    \/ ScreenShake_shake
    \/ \E c \in Cameras \ {Cam} : Spawn(c)
    \/ \E c \in Cameras \ {Cam} : Despawn(c)
    \/ \E d \in ShakeDeltas, r \in RngSamples : screen_shake(d, r[1], r[2])

SpecScreen == Init /\ [][NextScreen]_vars

\* The frame with the cameras and the anchor targets spawned and despawned by
\* the game: zero, one or two of each exist
NextCameras ==
    \/ \E p \in TargetPoints : MoveTarget(p)
    \/ \E e \in MainCamera \cup AnchorTarget : Despawn(e)
    \/ \E e \in MainCamera \cup AnchorTarget : Spawn(e)
    \/ Tick
    \/ bind_to_dyn_anchor
    \/ unbind_dyn_anchor
    \/ camera_binded
    \/ \E d \in Deltas : camera_move_to(d)
    \/ ApplyDeferred
    \/ anchor

SpecCameras == Init /\ [][NextCameras]_vars

\* The frame with the camera plugin, the shake plugin and the z-order plugin
\* together, the camera being shakeable: restore in PreUpdate, the game in
\* Update, and in PostUpdate the camera systems, shake and order_z in any order
\* their plugins allow
\* no dynamic anchor is spawned in this world; the camera is bound by a fragment
InitFrame ==
    /\ transform = [e \in Entities |->
                        IF e \in CameraAnchor \cup DynamicCameraAnchor \cup {"cam2", "tgt2"}
                        THEN NoVec ELSE SpawnPoint(e)]
    /\ binded = None
    /\ moveTo = NoMoveTo
    /\ dynAnchored = None
    /\ cmds = <<>>
    /\ phase = "Update"
    /\ ran = {}
    /\ done = NoMoveTo
    /\ applied = <<>>
    /\ frames = 0
    /\ fragments = 0
    /\ shake = [e \in Shakeable |-> [trauma |-> 0, reference_translation |-> NoVec]]
    /\ lastShake = [delta |-> 0,
                    unshaken |-> [e \in Shakeable |-> SpawnPoint(e)],
                    shaken |-> [e \in Shakeable |-> SpawnPoint(e)]]
    /\ zorder = [order |-> NoVec, changed |-> FALSE, unordered |-> NoVec,
                 pending |-> NoVec, seen |-> <<>>, written |-> FALSE,
                 yorigin |-> NoVec, dirty |-> FALSE, derived |-> NoVec]
    /\ post = [on |-> {}, bound |-> {}, log |-> "none", hook |-> FALSE]
    /\ cam2 = NoComponents
    /\ cmds2 = <<>>
    /\ screenShake = ScreenShakeDefault

BindCameraRestored(e) == phase = "Update" /\ bind_camera(e)
RestoreFrame == phase = "FrameEnd" /\ "order_z" \in ran /\ restore

NextFrame ==
    \/ \E e \in Marked : BindCameraRestored(e)
    \/ \E a \in TraumaAmounts : AddTraumaCommand(a)
    \/ TickRestored
    \/ bind_to_dyn_anchor
    \/ unbind_dyn_anchor
    \/ camera_binded
    \/ \E d \in Deltas : camera_move_to(d)
    \/ ApplyDeferred
    \/ anchor
    \/ \E d \in ShakeDeltas, n \in Noise : shake_system(d, n)
    \/ order_z
    \/ RestoreFrame

SpecFrame == InitFrame /\ [][NextFrame]_vars

----------------------------------------------------------------------------
(* Claims *)

\* the camera's deferred commands of this PostUpdate have been applied
CommandsApplied == phase \in {"Anchor", "FrameEnd"}

\* C1: once the deferred commands of a frame are applied, the main camera never
\* carries a Binded and a MoveTo together.
C1_AtMostOneMode ==
    CommandsApplied => ~(binded # None /\ moveTo # NoMoveTo)

\* the commands camera_move_to queues when the timer of m finishes
CompletionOf(m) ==
    IF m.domain.kind = "Entity"
    THEN << [op |-> "RemoveMoveTo"], [op |-> "InsertBinded", entity |-> m.domain.target] >>
    ELSE << [op |-> "RemoveMoveTo"] >>

C3_ReachesEnd ==
    (phase = "Anchor" /\ done # NoMoveTo /\ done.domain.kind = "Positions"
        /\ done.timer.duration > 0) =>
        transform[Cam] = done.domain.end

\* the system s runs in this step
Runs(s) == s \notin ran /\ s \in ran'

\* translation of entity e plus its CameraOffset, zero when it has none
WithOffset(e) ==
    IF CameraOffset(e) = NoVec
    THEN transform[e]
    ELSE <<transform[e][1] + CameraOffset(e)[1], transform[e][2] + CameraOffset(e)[2],
           transform[e][3]>>

\* C4: whenever camera_binded runs with the camera Binded to an entity that has a
\* Transform, the camera translation becomes exactly that entity's translation
\* plus its CameraOffset.
C4_BindedSnaps ==
    [][ (Runs("camera_binded") /\ binded # None /\ binded # Cam /\ Exists(binded)) =>
            transform'[Cam] = WithOffset(binded)
      ]_vars

\* C4 witness: camera_binded alone has run and put a camera that was elsewhere on
\* the target's translation (12, 16, 8) plus its offset (4, 0)
C4_Witness ==
    /\ phase = "PostUpdate"
    /\ ran = {"camera_binded"}
    /\ binded = "tgt"
    /\ transform["tgt"] = <<12, 16, 8>>
    /\ transform[Cam] = <<16, 16, 8>>

\* C5: whenever camera_move_to runs on an entity move that is still in flight and
\* whose target resolves, the translation written is the easing curve from the
\* fixed start to the target's translation plus CameraOffset as they are in that
\* frame, sampled at the timer's fraction.
C5_LiveTarget ==
    [][ (Runs("camera_move_to") /\ moveTo # NoMoveTo /\ moveTo.domain.kind = "Entity"
            /\ moveTo'.timer.elapsed < moveTo.timer.duration
            /\ Exists(moveTo.domain.target)) =>
            LET e == moveTo'.timer.elapsed
                d == moveTo.timer.duration
                w == IF moveTo.easing = "Linear" THEN <<e, d>>
                     ELSE <<d * d - (d - e) * (d - e), d * d>>
                from == moveTo.domain.start
                to == WithOffset(moveTo.domain.target)
            IN  transform'[Cam] =
                    [i \in 1..3 |-> from[i] + ((to[i] - from[i]) * w[1]) \div w[2]]
      ]_vars

\* C5 witness: the move was issued by the unbind while the target stood at
\* (12, 20, 0); the target has since moved to (0, 0, 0) and the sample at 1/2 of a
\* quadratic ease-out from (0, 0, 0) lies at 3/4 of the way to (4, 0, 0)
C5_Witness ==
    /\ phase = "PostUpdate"
    /\ "camera_move_to" \in ran
    /\ "camera_binded" \in ran
    /\ moveTo # NoMoveTo
    /\ moveTo.domain.kind = "Entity"
    /\ moveTo.domain.start = <<0, 0, 0>>
    /\ moveTo.timer = [elapsed |-> 1, duration |-> 2]
    /\ transform["tgt"] = <<0, 0, 0>>
    /\ transform[Cam] = <<3, 0, 0>>

\* the commands that bind_to_dyn_anchor queued for anchor a
BindQueued(a) ==
    \E i \in DOMAIN cmds : cmds[i].op = "InsertMoveToDyn" /\ cmds[i].anchor = a

\* unbind_dyn_anchor queued the removal of DynamicallyAnchored
UnbindQueued == \E i \in DOMAIN cmds : cmds[i].op = "RemoveDyn"

\* squared planar distance between the translations of entities a and b
Planar2(a, b) ==
    (transform[a][1] - transform[b][1]) * (transform[a][1] - transform[b][1])
    + (transform[a][2] - transform[b][2]) * (transform[a][2] - transform[b][2])

\* C6: with one anchor target in the world, a bind for anchor a is queued in a
\* frame iff the camera is not dynamically anchored and the squared planar
\* distance is <= radius^2; an unbind is queued iff the camera is dynamically
\* anchored to an anchor from which that distance is > radius^2.
C6_RadiusTest ==
    (phase = "PostUpdate" /\ Exists("tgt")) =>
        /\ "bind_to_dyn_anchor" \in ran =>
            \A a \in DynamicCameraAnchor :
                BindQueued(a) <=>
                    (dynAnchored = None /\ Planar2(a, "tgt") <= Radius(a) * Radius(a))
        /\ "unbind_dyn_anchor" \in ran =>
            (UnbindQueued <=>
                (dynAnchored # None
                    /\ Planar2("tgt", dynAnchored) > Radius(dynAnchored) * Radius(dynAnchored)))

\* C6 witness: the target stands at planar distance exactly radius from a1 (and 8
\* above it); the bind for a1 is queued
C6_Witness ==
    /\ phase = "PostUpdate"
    /\ "bind_to_dyn_anchor" \in ran
    /\ transform["tgt"] = <<12, 16, 8>>
    /\ Planar2("a1", "tgt") = Radius("a1") * Radius("a1")
    /\ BindQueued("a1")

\* the commands queued in this step
Queued == SubSeq(cmds', Len(cmds) + 1, Len(cmds'))

\* C7 (as stated): the MoveTo that a bind queues is a move to an entity, the
\* anchor target.
C7_BindMovesToTarget ==
    \A i \in DOMAIN cmds :
        cmds[i].op = "InsertMoveToDyn" =>
            /\ cmds[i].moveTo.domain.kind = "Entity"
            /\ cmds[i].moveTo.domain.target \in AnchorTarget

\* C7 (amended): the command a bind queues for an anchor inserts, together, a
\* DynamicallyAnchored naming that anchor and a MoveTo to a fixed point: the
\* anchor's own translation, from the camera's translation at that moment, with
\* quadratic ease-out, a fresh timer and a duration of `speed` milliseconds.
C7_BindCommand ==
    [][ Runs("bind_to_dyn_anchor") =>
            \A i \in DOMAIN Queued :
                /\ Queued[i].op = "InsertMoveToDyn"
                /\ Queued[i].anchor \in DynamicCameraAnchor
                /\ Queued[i].moveTo =
                     [timer |-> [elapsed |-> 0, duration |-> Speed(Queued[i].anchor)],
                      easing |-> "QuadraticOut",
                      domain |-> [kind |-> "Positions", start |-> transform[Cam],
                                  end |-> transform[Queued[i].anchor]]]
      ]_vars

\* C7 witness: with the camera standing on the npc at (8, 0, 0), the bind for a1
\* (speed 2, at the origin) is queued first
C7_Witness ==
    /\ phase = "PostUpdate"
    /\ cmds # <<>>
    /\ cmds[1] = [op |-> "InsertMoveToDyn", anchor |-> "a1",
                  moveTo |-> [timer |-> [elapsed |-> 0, duration |-> 2],
                              easing |-> "QuadraticOut",
                              domain |-> [kind |-> "Positions", start |-> <<8, 0, 0>>,
                                          end |-> <<0, 0, 0>>]]]

\* C8 (as stated): the MoveTo that an unbind queues is a move to a fixed point.
C8_UnbindMovesToAnchor ==
    \A i \in DOMAIN cmds :
        cmds[i].op = "InsertMoveTo" => cmds[i].moveTo.domain.kind = "Positions"

\* C8 (amended): an unbind queues exactly two commands: the insertion of a MoveTo
\* to an entity, the anchor target, from the camera's translation at that moment,
\* with quadratic ease-out, a fresh timer and the duration `speed` milliseconds of
\* the anchor the camera was dynamically anchored to, and the removal of
\* DynamicallyAnchored; once applied the record is gone, and the completion of
\* that move queues Binded(anchor target).
C8_UnbindCommand ==
    /\ [][ (Runs("unbind_dyn_anchor") /\ Queued # <<>>) =>
                /\ dynAnchored \in DynamicCameraAnchor
                /\ Queued =
                    << [op |-> "InsertMoveTo",
                        moveTo |-> [timer |-> [elapsed |-> 0, duration |-> Speed(dynAnchored)],
                                    easing |-> "QuadraticOut",
                                    domain |-> [kind |-> "Entity", start |-> transform[Cam],
                                                target |-> "tgt"]]],
                       [op |-> "RemoveDyn"] >>
         ]_vars
    /\ []((phase = "Anchor" /\ \E i \in DOMAIN applied : applied[i].op = "RemoveDyn")
            => dynAnchored = None)
    /\ []((done # NoMoveTo /\ done.domain.kind = "Entity" /\ phase = "PostUpdate")
            => \E i \in DOMAIN cmds : cmds[i] = [op |-> "InsertBinded", entity |-> "tgt"])

\* C8 witness: the camera was anchored to a1 (speed 2); the unbind queued the move
\* to the target and the removal, and they have been applied
C8_Witness ==
    /\ phase = "Anchor"
    /\ applied = << [op |-> "InsertMoveTo",
                     moveTo |-> [timer |-> [elapsed |-> 0, duration |-> 2],
                                 easing |-> "QuadraticOut",
                                 domain |-> [kind |-> "Entity", start |-> <<0, 0, 0>>,
                                             target |-> "tgt"]]],
                    [op |-> "RemoveDyn"] >>
    /\ dynAnchored = None
    /\ moveTo # NoMoveTo
    /\ moveTo.domain.kind = "Entity"

\* exactly one static CameraAnchor exists, and it is s
OnlyCameraAnchor(s) ==
    /\ s \in CameraAnchor
    /\ Exists(s)
    /\ \A o \in CameraAnchor \ {s} : ~Exists(o)

\* C9: at the end of every frame in which exactly one static CameraAnchor
\* exists, the camera translation equals that anchor's translation, whatever the
\* camera's mode.
C9_StaticAnchorWins ==
    phase = "FrameEnd" =>
        \A s \in CameraAnchor : OnlyCameraAnchor(s) => transform[Cam] = transform[s]

\* C9 witness: a move to the target entity was sampled in this frame (elapsed 1 of
\* 2), and the camera nevertheless ends the frame on the only anchor s2
C9_Witness ==
    /\ phase = "FrameEnd"
    /\ OnlyCameraAnchor("s2")
    /\ moveTo # NoMoveTo
    /\ moveTo.domain.kind = "Entity"
    /\ moveTo.timer = [elapsed |-> 1, duration |-> 2]
    /\ transform[Cam] = <<0, 16, 0>>

\* the MoveTo of the last insertion among the applied commands, NoMoveTo if none
LastIssued ==
    LET ins == {i \in DOMAIN applied : applied[i].op \in {"InsertMoveTo", "InsertMoveToDyn"}}
    IN  IF ins = {} THEN NoMoveTo
        ELSE applied[CHOOSE i \in ins : \A j \in ins : j <= i].moveTo

\* C10: when a move command was issued in a frame, then after the frame's
\* commands are applied the camera carries exactly the newly issued MoveTo.
C10_NewMoveReplaces ==
    (phase = "Anchor" /\ LastIssued # NoMoveTo) => moveTo = LastIssued

----------------------------------------------------------------------------
(* Claims on the trauma shake *)

\* the step is the shake pass of a PostUpdate, the restore pass of a PreUpdate
ShakePass == "shake" \notin ran /\ "shake" \in ran'
RestorePass == "shake" \in ran /\ "shake" \notin ran'

\* C11: every step leaves the trauma of every Shake within [0, 1], and a step of
\* the Update schedule that changes trauma sets it, for one amount, to
\* clamp(trauma + amount, 0, 1) on every Shake it changes.
C11_TraumaClamped ==
    [][ /\ \A e \in Shakeable : shake'[e].trauma >= 0 /\ shake'[e].trauma <= TraumaOne
        /\ (phase = "Update" /\ shake' # shake) =>
              \E a \in TraumaAmounts : \A e \in Shakeable :
                  \/ shake'[e] = shake[e]
                  \/ shake'[e].trauma =
                        (IF shake[e].trauma + a < 0 THEN 0
                         ELSE IF shake[e].trauma + a > TraumaOne THEN TraumaOne
                         ELSE shake[e].trauma + a)
      ]_vars

\* C11 witness: add_trauma calls took both Shakes to the ceiling 1.0 and a shake
\* pass then decayed one of them.
C11_Witness ==
    /\ "shake" \in ran
    /\ lastShake.delta = 1
    /\ shake["prop"].trauma = TraumaOne
    /\ shake["cam"].trauma = TraumaOne - 1

\* C12: a shake pass lowers the trauma of every Shake whose decay_per_second is
\* positive by decay_per_second x delta, down to 0 and never below, so that a
\* trauma of 0 stays 0.
C12_TraumaDecays ==
    [][ ShakePass =>
            \A e \in Shakeable :
                (Exists(e) /\ DecayPerSecond(e) > 0) =>
                    shake'[e].trauma =
                        (IF shake[e].trauma - Decay(e, lastShake'.delta) < 0 THEN 0
                         ELSE shake[e].trauma - Decay(e, lastShake'.delta))
      ]_vars

\* C13: the restore pass leaves every shakeable entity at the translation it had
\* before the last shake pass, and a shake pass that leaves a trauma of 0 does
\* not move the entity.
C13_RestoreUndoesShake ==
    [][ /\ RestorePass =>
              \A e \in Shakeable : transform'[e] = lastShake.unshaken[e]
        /\ ShakePass =>
              \A e \in Shakeable : shake'[e].trauma = 0 => transform'[e] = transform[e]
      ]_vars

\* C13 witness: the game moved the entity, the shake pass offset it, and the
\* restore pass has put it back where the game had moved it.
C13_Witness ==
    /\ phase = "Update"
    /\ ran = {}
    /\ lastShake.unshaken["prop"] = <<44, 40, 0>>
    /\ lastShake.shaken["prop"] = <<60, 24, 0>>
    /\ transform["prop"] = <<44, 40, 0>>
    /\ shake["prop"].reference_translation = NoVec

----------------------------------------------------------------------------
(* Claims on the z-ordering *)

\* the captured base: the UnorderedZ component, or the insert still queued
ZBase(zo) == IF zo.unordered # NoVec THEN zo.unordered ELSE zo.pending

\* C14: the base z is captured once, as the z the first order_z pass that sees the
\* ZOrder finds, and never changes afterwards; after an order_z pass with no
\* external z write since the capture, z equals the base plus the ZOrder value.
C14_BasePlusOrder ==
    [][ /\ ZBase(zorder) # NoVec => ZBase(zorder') = ZBase(zorder)
        /\ (ZBase(zorder) = NoVec /\ ZBase(zorder') # NoVec) =>
              /\ "order_z" \notin ran /\ "order_z" \in ran'
              /\ ZBase(zorder') = <<transform[ZEntity][3]>>
        /\ ("order_z" \in ran' /\ zorder'.order # NoVec /\ ~zorder'.written) =>
              transform'[ZEntity][3] = ZBase(zorder')[1] + zorder'.order[1]
      ]_vars

\* C14 witness: base 10 was captured with ZOrder 0.5, the ZOrder was changed to
\* 0.8 and the next order_z pass has set z to 10.8.
C14_Witness ==
    /\ "order_z" \in ran
    /\ zorder.unordered = <<100>>
    /\ zorder.seen = <<5, 8>>
    /\ zorder.order = <<8>>
    /\ transform[ZEntity][3] = 108
    /\ ~zorder.written

----------------------------------------------------------------------------
(* Claims on the post processing *)

\* the step despawns the entity o while it carries a PostProcessBinding child
DespawnsBound(o) == o \in post.bound /\ transform[o] # NoVec /\ transform'[o] = NoVec

----------------------------------------------------------------------------
(* Claims on the dynamic anchors, continued *)

\* the bind commands among the commands applied at this PostUpdate's sync point
BindsApplied == {i \in DOMAIN applied : applied[i].op = "InsertMoveToDyn"}
LastBind == applied[CHOOSE i \in BindsApplied : \A j \in BindsApplied : j <= i]

\* C18: when bind_to_dyn_anchor queued a bind for two or more anchors in a frame,
\* then after the frame's commands are applied the camera carries the
\* DynamicallyAnchored record and the MoveTo of one of them, the anchor visited
\* last in the iteration order.
C18_OneWinner ==
    (phase = "Anchor" /\ Cardinality(BindsApplied) >= 2) =>
        /\ dynAnchored = LastBind.anchor
        /\ moveTo = LastBind.moveTo
        /\ LastBind.anchor = DynAnchorOrder[Len(DynAnchorOrder)]

----------------------------------------------------------------------------
(* Claims on the bound follow, continued *)

\* C20: when camera_binded runs with the camera Binded to an entity that does not
\* resolve, it leaves the camera translation and the Binded component as they
\* are and queues nothing; as soon as the entity resolves, the run snaps the
\* camera to it again.
C20_UnresolvedKeepsBinded ==
    [][ (Runs("camera_binded") /\ binded # None) =>
            IF TargetsGet(binded)
            THEN transform'[Cam] = WithOffset(binded) /\ binded' = binded
            ELSE transform' = transform /\ binded' = binded /\ cmds' = cmds
      ]_vars

\* C20 witness: the camera followed npc, npc was despawned, and camera_binded has
\* run and left the camera where it stood, still Binded to npc.
C20_Witness ==
    /\ "camera_binded" \in ran
    /\ binded = "npc"
    /\ transform["npc"] = NoVec
    /\ transform[Cam] = SpawnPoint("npc")
    /\ frames >= 2

----------------------------------------------------------------------------
(* Claims on the order of the passes *)

\* the static anchor pass runs in this step
AnchorPass == phase = "Anchor" /\ phase' = "FrameEnd"

\* C16: in every PostUpdate the passes run in one order: the bind and unbind
\* decisions, then the bound follow and the MoveTo advance, then the static
\* anchor pass, then the shake pass, then the z-ordering.
C16_FixedOrder ==
    [][ /\ (Runs("camera_binded") \/ Runs("camera_move_to")) =>
              {"bind_to_dyn_anchor", "unbind_dyn_anchor"} \subseteq ran
        /\ AnchorPass => Systems \subseteq ran
        /\ Runs("shake") => phase = "FrameEnd"
        /\ Runs("order_z") => "shake" \in ran
      ]_vars

\* the offset the last shake pass added to the camera translation
CameraShakeOffset ==
    [i \in 1..3 |-> lastShake.shaken[Cam][i] - lastShake.unshaken[Cam][i]]

\* C17: a bound follow that runs after the shake pass of the same PostUpdate
\* leaves the camera at the followed point plus the shake offset, and the restore
\* pass takes exactly the shake offset off the translation the frame ended with.
C17_Additive ==
    [][ /\ (Runs("camera_binded") /\ "shake" \in ran /\ binded # None /\ TargetsGet(binded)) =>
              transform'[Cam] = Add(WithOffset(binded), CameraShakeOffset)
        /\ RestorePass =>
              Add(transform'[Cam], CameraShakeOffset) = transform[Cam]
      ]_vars

----------------------------------------------------------------------------
(* Claims on the number of cameras and anchor targets *)

\* the number of AnchorTarget entities, of MainCamera entities
TargetCount == Cardinality({t \in AnchorTarget : Exists(t)})
CameraCount == Cardinality({c \in MainCamera : Exists(c)})

\* C19: in a tick where the number of AnchorTarget entities, or of MainCamera
\* entities, is zero or more than one, bind_to_dyn_anchor and
\* unbind_dyn_anchor issue no command
C19_SkipsUnlessSingle ==
    [][ ((Runs("bind_to_dyn_anchor") \/ Runs("unbind_dyn_anchor"))
            /\ (TargetCount # 1 \/ CameraCount # 1))
        => (cmds' = cmds /\ cmds2' = cmds2) ]_vars

----------------------------------------------------------------------------
(* Claims on a MoveTo whose target entity disappears *)

\* the camera carries a MoveTo toward an entity and the step is the pass of
\* camera_move_to that leaves it in flight
EntityMoveInFlight ==
    /\ Runs("camera_move_to")
    /\ moveTo # NoMoveTo
    /\ moveTo.domain.kind = "Entity"
    /\ ~MoveToComplete(moveTo')

\* C21: when the target entity of an in-flight MoveTo does not resolve,
\* camera_move_to leaves the camera translation as it was and keeps the MoveTo,
\* queueing nothing; in a tick where the target resolves the translation is
\* the sample toward the target's current translation plus its CameraOffset
C21_HoldsAndRetries ==
    [][ EntityMoveInFlight =>
            /\ moveTo'.domain = moveTo.domain
            /\ cmds' = cmds
            /\ IF TargetsGet(moveTo.domain.target)
               THEN transform'[Cam] = Sample(moveTo.domain.start,
                                             WithOffset(moveTo.domain.target),
                                             moveTo.easing, TimerFraction(moveTo'.timer))
               ELSE transform'[Cam] = transform[Cam]
      ]_vars

\* the first pass over a move of three milliseconds ran while the target was
\* despawned: the timer is at 1 and the camera still at the start
C21_Witness ==
    /\ phase = "PostUpdate"
    /\ "camera_move_to" \in ran
    /\ moveTo # NoMoveTo
    /\ moveTo.domain.kind = "Entity"
    /\ ~Exists(moveTo.domain.target)
    /\ moveTo.timer = [elapsed |-> 1, duration |-> 3]
    /\ transform[Cam] = moveTo.domain.start

----------------------------------------------------------------------------
(* Claims on the timing of a move *)

\* C22: after the ticks of a move between two fixed positions, of total time
\* t <= D, the camera is at the sample of the curve at t / D, however t was
\* split into ticks
C22_DependsOnTotalTime ==
    (/\ phase = "PostUpdate"
     /\ "camera_move_to" \in ran
     /\ moveTo # NoMoveTo
     /\ moveTo.domain.kind = "Positions")
        => transform[Cam] = Sample(moveTo.domain.start, moveTo.domain.end, moveTo.easing,
                                   TimerFraction(moveTo.timer))

----------------------------------------------------------------------------
(* Claims on the trauma shake, continued *)

\* C23: a shake pass sets the trauma of every shakeable entity to
\* max(0, trauma - decay_per_second x delta), whatever its trauma and whatever
\* the trauma of the entities visited before it in the pass
C23_EveryEntityDecays ==
    [][ ShakePass =>
            \A e \in Shakeable :
                Exists(e) => shake'[e].trauma = Decayed(e, shake[e].trauma, lastShake'.delta)
      ]_vars

\* C24: a shake pass leaves an entity whose trauma^trauma_power is 0 after the
\* decay where it is, without a reference_translation; an entity for which it
\* is positive gets its translation recorded as reference_translation and the
\* offset added to x and y, z unchanged; the restore pass clears every
\* reference_translation and no other step changes one
C24_OffsetOnlyWhenShaking ==
    [][ /\ ShakePass =>
              \A e \in Shakeable :
                  Exists(e) =>
                      LET trauma == Decayed(e, shake[e].trauma, lastShake'.delta)
                      IN  IF TraumaAmount(trauma) = 0
                          THEN /\ transform'[e] = transform[e]
                               /\ shake'[e].reference_translation = NoVec
                          ELSE /\ shake'[e].reference_translation = transform[e]
                               /\ transform'[e][3] = transform[e][3]
                               /\ \E n \in Noise :
                                     transform'[e] = Add(transform[e], ShakeOffset(trauma, n))
        /\ RestorePass =>
              \A e \in Shakeable : shake'[e].reference_translation = NoVec
        /\ ~(ShakePass \/ RestorePass) =>
              \A e \in Shakeable :
                  shake'[e].reference_translation = shake[e].reference_translation
      ]_vars

----------------------------------------------------------------------------
(* Claims on the alternation of binds and unbinds *)

\* the frame's command buffer holds a bind, an unbind
BindIssued == \E i \in DOMAIN cmds : cmds[i].op = "InsertMoveToDyn"
UnbindIssued == \E i \in DOMAIN cmds : cmds[i].op = "RemoveDyn"

\* the step is the sync point that applies the frame's commands
SyncPoint == phase = "PostUpdate" /\ phase' = "Anchor"

\* C25: bind_to_dyn_anchor queues commands only while the camera carries no
\* DynamicallyAnchored and unbind_dyn_anchor only while it carries one; no frame
\* has both a bind and an unbind; a frame with a bind ends with the record on
\* the camera, a frame with an unbind without it, and no other step changes the
\* record: counted by frames, binds and unbinds alternate, a bind first
C25_BindUnbindAlternate ==
    [][ /\ (Runs("bind_to_dyn_anchor") /\ Queued # <<>>) => dynAnchored = None
        /\ (Runs("unbind_dyn_anchor") /\ Queued # <<>>) => dynAnchored # None
        /\ ~(BindIssued /\ UnbindIssued)
        /\ IF SyncPoint
           THEN /\ BindIssued => (dynAnchored = None /\ dynAnchored' # None)
                /\ UnbindIssued => (dynAnchored # None /\ dynAnchored' = None)
                /\ ~(BindIssued \/ UnbindIssued) => dynAnchored' = dynAnchored
           ELSE dynAnchored' = dynAnchored
      ]_vars

\* the third frame queues a bind again: the camera carries no record and still
\* the MoveTo toward the target that the unbind of the second frame inserted
\* after the bind of the first
C25_Witness ==
    /\ phase = "PostUpdate"
    /\ frames = 3
    /\ BindIssued
    /\ dynAnchored = None
    /\ moveTo # NoMoveTo
    /\ moveTo.domain.kind = "Entity"

----------------------------------------------------------------------------
(* Claims on a DynamicallyAnchored record whose anchor is gone *)

\* the record on the camera names an anchor that no longer resolves
Dangling == dynAnchored # None /\ ~Exists(dynAnchored)

\* C26: while the DynamicallyAnchored record names an anchor that does not
\* resolve, no step changes the record and neither bind_to_dyn_anchor nor
\* unbind_dyn_anchor queues a command
C26_DanglingRecordStays ==
    [][ Dangling =>
            /\ dynAnchored' = dynAnchored
            /\ (Runs("bind_to_dyn_anchor") \/ Runs("unbind_dyn_anchor")) => cmds' = cmds
      ]_vars

\* the camera was bound to a2, a2 was despawned and the target went to a point
\* out of a2's radius and within a1's; both systems ran and queued nothing
C26_Witness ==
    /\ phase = "PostUpdate"
    /\ {"bind_to_dyn_anchor", "unbind_dyn_anchor"} \subseteq ran
    /\ dynAnchored = "a2"
    /\ ~Exists("a2")
    /\ Exists("a1")
    /\ transform["tgt"] = <<0, 0, 0>>
    /\ ~BindIssued
    /\ ~UnbindIssued

----------------------------------------------------------------------------
(* Claims on the completion of a MoveTo whose target entity is gone *)

\* the camera carries a MoveTo toward an entity that does not resolve and the
\* step is the pass of camera_move_to
UnresolvedMovePass ==
    /\ Runs("camera_move_to")
    /\ moveTo # NoMoveTo
    /\ moveTo.domain.kind = "Entity"
    /\ ~TargetsGet(moveTo.domain.target)

\* C27: a pass of camera_move_to over a MoveTo whose target entity does not
\* resolve advances the timer by the frame's delta, and when that finishes the
\* timer it queues the removal of the MoveTo and the insert of Binded(target);
\* applied alone at the sync point, these leave the camera without MoveTo and
\* Binded to the target, whether or not the target exists
C27_CompletesWithoutTarget ==
    [][ /\ UnresolvedMovePass =>
              /\ \E d \in Deltas : moveTo'.timer = TimerTick(moveTo.timer, d)
              /\ moveTo'.timer.elapsed > moveTo.timer.elapsed
              /\ IF TimerFinished(moveTo'.timer)
                 THEN cmds' = cmds \o <<RemoveMoveTo, InsertBinded(moveTo.domain.target)>>
                 ELSE cmds' = cmds
        /\ (SyncPoint /\ moveTo # NoMoveTo /\ moveTo.domain.kind = "Entity"
                /\ cmds = <<RemoveMoveTo, InsertBinded(moveTo.domain.target)>>) =>
              (moveTo' = NoMoveTo /\ binded' = moveTo.domain.target)
      ]_vars

\* the target was despawned before the first sample of a move of two
\* milliseconds was written, the timer ran out without the target resolving,
\* and the frame's commands left the camera Binded to the despawned entity
C27_Witness ==
    /\ phase = "Anchor"
    /\ frames = 2
    /\ moveTo = NoMoveTo
    /\ binded = "npc"
    /\ ~Exists("npc")
    /\ done # NoMoveTo
    /\ done.timer = [elapsed |-> 2, duration |-> 2]
    /\ transform[Cam] = done.domain.start

----------------------------------------------------------------------------
(* Claims on the ScreenShake resource *)

\* the step is the frame's run of screen_shake
ScreenShakePass == phase = "Update" /\ phase' = "Update" /\ frames' = frames + 1

\* C28: from a shake_with call until the next run of screen_shake the stored
\* trauma is the value the last call was given; every run of screen_shake
\* leaves the stored trauma within [0, 1]; a run that starts with trauma 0
\* modifies no Transform
C28_ScreenShake ==
    [][ /\ screenShake'.asked # NoVec => screenShake'.trauma = screenShake'.asked[1]
        /\ ScreenShakePass =>
              (screenShake'.trauma >= 0 /\ screenShake'.trauma <= TraumaOne)
        /\ (ScreenShakePass /\ screenShake.trauma = 0) => transform' = transform
      ]_vars

\* two runs have shaken the camera and decayed the trauma to at most 1, and
\* shake_with(1.5) has then stored 1.5
C28_Witness ==
    /\ frames = 2
    /\ transform[Cam] # SpawnPoint(Cam)
    /\ screenShake.asked = <<6>>
    /\ screenShake.trauma = 6

----------------------------------------------------------------------------
(* Claims on the YOrigin *)

\* the order derived from the YOrigin and the y of the entity as they are
DerivedOrder == -((zorder.yorigin[1] + transform[ZEntity][2]) \div 1000)

\* z is the captured base plus the derived order, and the ZOrder component and
\* the insert that origin_y queued carry the derived order
Settled ==
    /\ zorder.yorigin # NoVec
    /\ ZBase(zorder) # NoVec
    /\ zorder.order = <<DerivedOrder>>
    /\ zorder.derived \in {NoVec, <<DerivedOrder>>}
    /\ transform[ZEntity][3] = ZBase(zorder)[1] + DerivedOrder

\* the step is the origin_y pass, the order_z pass of a tick
OriginYPass == "origin_y" \notin ran /\ "origin_y" \in ran'
OrderZPass == "order_z" \notin ran /\ "order_z" \in ran'

\* the step changes the YOrigin or the y of the entity
ExternalChange == zorder'.yorigin # zorder.yorigin \/ transform'[ZEntity][2] # transform[ZEntity][2]

\* C29 as stated: once order_z has ordered z, every following tick's origin_y pass
\* inserts the ZOrder again and every following tick's order_z pass rewrites z.
C29_RewritesEveryTick ==
    [][ /\ (OriginYPass /\ zorder.yorigin # NoVec /\ ZBase(zorder) # NoVec) =>
              zorder'.derived # NoVec
        /\ (OrderZPass /\ zorder.yorigin # NoVec /\ ZBase(zorder) # NoVec) =>
              Len(zorder'.seen) = Len(zorder.seen) + 1
      ]_vars

\* C29: an origin_y pass that finds the Transform or the YOrigin changed queues
\* ZOrder(-(y_offset + y) / 10000), and the sync point inserts it; an order_z pass
\* that writes z marks the Transform changed, so that between two ticks either the
\* ZOrder is changed for order_z or the Transform is changed for origin_y: one of
\* the two passes acts in every tick, without end; yet once z is the base plus the
\* derived order it stays so in every step that changes neither y nor the YOrigin.
C29_DerivedOrderFixed ==
    [][ /\ OriginYPass =>
              zorder'.derived = IF zorder.yorigin # NoVec /\ zorder.dirty
                                THEN <<DerivedOrder>> ELSE zorder.derived
        /\ (zorder.derived # NoVec /\ phase' = "Update" /\ phase # "Update") =>
              zorder'.order = zorder.derived /\ zorder'.changed
        /\ (OrderZPass /\ zorder.yorigin # NoVec /\ Len(zorder'.seen) > Len(zorder.seen)) =>
              zorder'.dirty
        /\ (phase' = "Update" /\ zorder'.yorigin # NoVec /\ ZBase(zorder') # NoVec) =>
              zorder'.dirty \/ zorder'.changed
        /\ (Settled /\ ~ExternalChange) =>
              /\ transform'[ZEntity][3] = transform[ZEntity][3]
              /\ ZBase(zorder') = ZBase(zorder)
      ]_vars

\* C29 witness: with YOrigin -40 and y = 1040 the order -0.1 was derived; order_z
\* captured base 0 in the second tick and rewrote z in the third; z is -0.1, and
\* origin_y has queued the same ZOrder once more.
C29_Witness ==
    /\ frames = 3
    /\ zorder.yorigin = <<-40>>
    /\ transform[ZEntity] = <<40, 1040, -1>>
    /\ zorder.unordered = <<0>>
    /\ zorder.seen = <<-1, -1>>
    /\ zorder.derived = <<-1>>
    /\ Settled

----------------------------------------------------------------------------
(* Claims on the post processing, continued *)

\* the log of a command that found no unique camera with M
PostFailed == {"apply failed", "bind failed", "remove failed"}

\* C30: when T is bound to two entities and exactly one camera with M exists,
\* the despawn of either takes T off the camera while the other stays alive and
\* bound; a post_process, bind_post_process or remove_post_process that finds no
\* unique camera with M logs an error and leaves every camera's T and every
\* binding as they were.
C30_SharedBinding ==
    [][ /\ \A o \in PostOwners :
              (/\ DespawnsBound(o)
               /\ post.bound \ {o} # {}
               /\ MarkerCameraSingle(transform') # None) =>
                  /\ post'.on = {}
                  /\ post'.bound = post.bound \ {o}
                  /\ \A b \in post'.bound : transform'[b] # NoVec
        /\ (transform' = transform /\ MarkerCameraSingle(transform) = None) =>
              /\ post'.on = post.on
              /\ post'.bound = post.bound
              /\ post' # post => post'.log \in PostFailed /\ ~post'.hook
      ]_vars

\* C30 witness: T was bound to "tgt" and to "npc" for the only camera; "npc" has
\* been despawned and the hook's removal has taken T off the camera, while "tgt"
\* is alive and still carries its binding.
C30_Witness ==
    /\ post.hook
    /\ post.log = "remove"
    /\ post.on = {}
    /\ post.bound = {"tgt"}
    /\ transform["npc"] = NoVec
    /\ transform["tgt"] # NoVec
    /\ MarkerCameraSingle(transform) = Cam

====
